---- MODULE Spec2Model ----
(***************************************************************************)
(* Model of edi_835_parser.transaction_set.TransactionSet: the segment     *)
(* stream builder (build / build_attribute), the payer lookup and the      *)
(* flattening stage (to_dataframe / serialize_service / add_line_item).    *)
(*                                                                         *)
(* A text is a sequence of one-character-like atoms: the record delimiter  *)
(* "~", the field delimiter "*", the whitespace "\n" and field values.     *)
(* An optional value (Python None or an object) is <<>> or <<v>>.          *)
(***************************************************************************)
EXTENDS Integers, Sequences, FiniteSets, TLC

VARIABLES
  file,                   \* the text of the document build reads
  tokens,                 \* build: the trimmed pieces the cursor runs over
  cursor,                 \* the iterator over tokens: the index it yields next
  segments,               \* build: its reference to the iterator, Some(index), or None
  segment,                \* build: the pending segment, or None
  interchange,            \* TransactionSet.interchange
  financial_information,  \* TransactionSet.financial_information
  claims,                 \* TransactionSet.claims
  organizations,          \* TransactionSet.organizations
  pc,                     \* where the caller is
  data,                   \* to_dataframe: the rows so far
  ci, si,                 \* to_dataframe: the claim and service iterated next
  error,                  \* the exception raised, or "none"
  result,                 \* what to_dataframe returned: None or Some(rows)
  found,                  \* what the payer lookup returned: None or Some(org)
  earlier                 \* the frames the earlier calls of to_dataframe returned

vars == <<file, tokens, cursor, segments, segment, interchange, financial_information,
          claims, organizations, pc, data, ci, si, error, result, found, earlier>>

\* ------------------------------------------------------------------ bounds
\* longest document, in segments, that build is run on
MaxLen == 4
\* most organizations and claims of a TransactionSet that is constructed
\* directly, and most rows (services plus adjustments) it flattens to
MaxOrgs == 2
MaxClaims == 2
MaxRows == 4
\* most calls of to_dataframe on one TransactionSet
MaxCalls == 2

\* ------------------------------------------------------------ Python values
None == <<>>
Some(v) == <<v>>
Get(o) == o[1]

\* the sequences over S of length n at most
SeqsUpTo(S, n) == UNION {[1..k -> S] : k \in 0..n}

RECURSIVE Concat(_)
Concat(ss) == IF ss = <<>> THEN <<>> ELSE Head(ss) \o Concat(Tail(ss))

\* ------------------------------------------------------- segment catalogue
\* identifiers of the segment and loop classes imported by transaction_set.py
InterchangeIdentification == <<"ISA">>
FinancialInformationIdentification == <<"BPR">>
OrganizationInitiatingIdentifier == <<"N1">>
ClaimInitiatingIdentifier == <<"CLP">>
ServiceInitiatingIdentifier == <<"SVC">>
AdjustmentIdentification == <<"CAS">>
ReferenceIdentification == <<"REF">>

\* the numbers that occur in the amount and unit fields
ToInt == [s \in {"1", "10", "50", "100"} |->
            CASE s = "1" -> 1 [] s = "10" -> 10 [] s = "50" -> 50 [] s = "100" -> 100]

\* organization type codes of the N1 segment
OrganizationType == [c \in {"PR", "PE"} |-> IF c = "PR" THEN "payer" ELSE "payee"]

\* the segment bodies documents are made of (one raw segment each, untrimmed
\* and without its delimiter); the empty body is what lies between two
\* delimiters or after the last one
Bodies == {
  <<>>,
  <<"ISA", "*", "I1">>,
  <<"BPR", "*", "D1">>,
  <<"N1", "*", "PR", "*", "ACME">>,
  <<"N1", "*", "PE", "*", "CLINIC">>,
  <<"CLP", "*", "1", "*", "DOE">>,
  <<"SVC", "*", "A", "*", "100", "*", "50", "*", "1">>,
  <<"CAS", "*", "CO", "*", "45", "*", "10">>,
  <<"REF", "*", "R1">>,
  <<"ZZ", "*", "X">> }

\* the text of a document: its bodies joined by the record delimiter, each
\* delimiter followed by a line break
RECURSIVE Render(_)
Render(bs) ==
  IF Len(bs) = 0 THEN <<>>
  ELSE IF Len(bs) = 1 THEN bs[1]
  ELSE bs[1] \o <<"~", "\n">> \o Render(Tail(bs))

\* bodies that differ from one another only in their values: two interchange
\* headers, two financial summaries, two claims
Variants == {
  <<"ISA", "*", "I1">>,
  <<"ISA", "*", "I2">>,
  <<"BPR", "*", "D1">>,
  <<"BPR", "*", "D2">>,
  <<"CLP", "*", "1", "*", "DOE">>,
  <<"CLP", "*", "10", "*", "ROE">> }

Documents ==
  {Render(bs) : bs \in SeqsUpTo(Bodies, MaxLen) \cup SeqsUpTo(Variants, MaxLen)}

\* --------------------------------------------------------------- tokenizer
\* str.split(sep): the pieces between the occurrences of sep, empty ones kept
RECURSIVE split(_, _)
split(s, sep) ==
  IF \A i \in 1..Len(s) : s[i] # sep THEN <<s>>
  ELSE LET i == CHOOSE k \in 1..Len(s) : s[k] = sep /\ \A j \in 1..(k - 1) : s[j] # sep
       IN <<SubSeq(s, 1, i - 1)>> \o split(SubSeq(s, i + 1, Len(s)), sep)

Whitespace == {"\n", " "}

\* str.strip(): leading and trailing whitespace removed
RECURSIVE strip(_)
strip(s) ==
  IF s = <<>> THEN s
  ELSE IF Head(s) \in Whitespace THEN strip(Tail(s))
  ELSE IF s[Len(s)] \in Whitespace THEN strip(SubSeq(s, 1, Len(s) - 1))
  ELSE s

\* build, lines 140-141
tokenize(text) == LET pieces == split(text, "~")
                  IN [i \in 1..Len(pieces) |-> strip(pieces[i])]

\* the fields of a segment, and its leading identifier
fields(seg) == split(seg, "*")
find_identifier(seg) == fields(seg)[1]

\* ------------------------------------------------------------ loop builders
\* Contract of a loop builder: build(starting segment, cursor) gives the value
\* built, the advanced cursor and the first segment it does not own (or None
\* when the cursor empties inside the loop). toks is the token list under the
\* cursor and p the index of its next unread token.
Exhausted(toks, p) == p > Len(toks)

\* the segment classes: typed records from the fields of one raw segment;
\* element(seg, i) is the text of field i
element(seg, i) == fields(seg)[i][1]
InterchangeSegment(seg) == [control |-> element(seg, 2)]
FinancialInformationSegment(seg) == [transaction_date |-> element(seg, 2)]
OrganizationSegment(seg) ==
  [type |-> OrganizationType[element(seg, 2)], name |-> element(seg, 3)]
ClaimSegment(seg) == [index |-> ToInt[element(seg, 2)]]
PatientSegment(seg) == [name |-> element(seg, 3)]
ServiceSegment(seg) ==
  [service_code |-> element(seg, 2), charge_amount |-> ToInt[element(seg, 3)],
   paid_amount |-> ToInt[element(seg, 4)], units |-> ToInt[element(seg, 5)]]
AdjustmentSegment(seg) ==
  [group_code |-> element(seg, 2), reason_code |-> element(seg, 3),
   amount |-> ToInt[element(seg, 4)]]
ReferenceSegment(seg) == element(seg, 2)

\* Adjustment within a Service: the one segment, then the next one handed back
AdjustmentBuild(seg, toks, p) ==
  IF Exhausted(toks, p)
  THEN [value |-> AdjustmentSegment(seg), pos |-> p, leftover |-> None]
  ELSE [value |-> AdjustmentSegment(seg), pos |-> p + 1, leftover |-> Some(toks[p])]

RECURSIVE ServiceScan(_, _, _, _)
ServiceScan(service, cand, toks, p) ==
  IF cand = None
  THEN IF Exhausted(toks, p)
       THEN [value |-> service, pos |-> p, leftover |-> None]
       ELSE ServiceScan(service, Some(toks[p]), toks, p + 1)
  ELSE LET identifier == find_identifier(Get(cand)) IN
       IF identifier = AdjustmentIdentification
       THEN LET r == AdjustmentBuild(Get(cand), toks, p)
            IN ServiceScan(
                 [service EXCEPT !.adjustments = Append(@, r.value)],
                 r.leftover, toks, r.pos)
       ELSE IF identifier = ReferenceIdentification
       THEN ServiceScan(
              [service EXCEPT !.references = Append(@, ReferenceSegment(Get(cand)))],
              None, toks, p)
       ELSE [value |-> service, pos |-> p, leftover |-> cand]

ServiceBuild(seg, toks, p) ==
  ServiceScan(
    [service |-> ServiceSegment(seg), service_period_start |-> None,
     service_period_end |-> None, remark |-> None, references |-> <<>>,
     adjustments |-> <<>>],
    None, toks, p)

RECURSIVE ClaimScan(_, _, _, _)
ClaimScan(claim, cand, toks, p) ==
  IF cand = None
  THEN IF Exhausted(toks, p)
       THEN [value |-> claim, pos |-> p, leftover |-> None]
       ELSE ClaimScan(claim, Some(toks[p]), toks, p + 1)
  ELSE LET identifier == find_identifier(Get(cand)) IN
       IF identifier = ServiceInitiatingIdentifier
       THEN LET r == ServiceBuild(Get(cand), toks, p)
            IN ClaimScan([claim EXCEPT !.services = Append(@, r.value)],
                         r.leftover, toks, r.pos)
       ELSE [value |-> claim, pos |-> p, leftover |-> cand]

ClaimBuild(seg, toks, p) ==
  ClaimScan(
    [claim |-> ClaimSegment(seg), patient |-> PatientSegment(seg),
     claim_statement_period_start |-> None, claim_statement_period_end |-> None,
     rendering_provider |-> None, services |-> <<>>],
    None, toks, p)

OrganizationBuild(seg, toks, p) ==
  IF Exhausted(toks, p)
  THEN [value |-> [organization |-> OrganizationSegment(seg)], pos |-> p,
        leftover |-> None]
  ELSE [value |-> [organization |-> OrganizationSegment(seg)], pos |-> p + 1,
        leftover |-> Some(toks[p])]

\* ------------------------------------------------------------------- build
BuildAttributeResponse(key, value, seg, segs) ==
  [key |-> key, value |-> value, segment |-> seg, segments |-> segs]

\* Dispatch, but an unrecognized segment stays pending
DispatchKeepsOther(seg, toks, p) ==
  LET identifier == find_identifier(seg) IN
  IF identifier = InterchangeIdentification
  THEN BuildAttributeResponse(Some("interchange"), InterchangeSegment(seg), None, Some(p))
  ELSE IF identifier = FinancialInformationIdentification
  THEN BuildAttributeResponse(Some("financial information"),
                              FinancialInformationSegment(seg), None, Some(p))
  ELSE IF identifier = OrganizationInitiatingIdentifier
  THEN LET r == OrganizationBuild(seg, toks, p)
       IN BuildAttributeResponse(Some("organization"), r.value, r.leftover, Some(r.pos))
  ELSE IF identifier = ClaimInitiatingIdentifier
  THEN LET r == ClaimBuild(seg, toks, p)
       IN BuildAttributeResponse(Some("claim"), r.value, r.leftover, Some(r.pos))
  ELSE BuildAttributeResponse(None, None, Some(seg), Some(p))

\* Dispatch, but the segment a claim loop hands back is dropped
DispatchDropsLeftover(seg, toks, p) ==
  LET identifier == find_identifier(seg) IN
  IF identifier = InterchangeIdentification
  THEN BuildAttributeResponse(Some("interchange"), InterchangeSegment(seg), None, Some(p))
  ELSE IF identifier = FinancialInformationIdentification
  THEN BuildAttributeResponse(Some("financial information"),
                              FinancialInformationSegment(seg), None, Some(p))
  ELSE IF identifier = OrganizationInitiatingIdentifier
  THEN LET r == OrganizationBuild(seg, toks, p)
       IN BuildAttributeResponse(Some("organization"), r.value, r.leftover, Some(r.pos))
  ELSE IF identifier = ClaimInitiatingIdentifier
  THEN LET r == ClaimBuild(seg, toks, p)
       IN BuildAttributeResponse(Some("claim"), r.value, None, Some(r.pos))
  ELSE BuildAttributeResponse(None, None, None, Some(p))

\* Dispatch, but a loop that ran into the end of the cursor hands back no
\* cursor at all
DispatchEndsOnExhaustion(seg, toks, p) ==
  LET identifier == find_identifier(seg) IN
  IF identifier = InterchangeIdentification
  THEN BuildAttributeResponse(Some("interchange"), InterchangeSegment(seg), None, Some(p))
  ELSE IF identifier = FinancialInformationIdentification
  THEN BuildAttributeResponse(Some("financial information"),
                              FinancialInformationSegment(seg), None, Some(p))
  ELSE IF identifier = OrganizationInitiatingIdentifier
  THEN LET r == OrganizationBuild(seg, toks, p)
       IN BuildAttributeResponse(Some("organization"), r.value, r.leftover,
            IF r.leftover = None /\ Exhausted(toks, r.pos) THEN None ELSE Some(r.pos))
  ELSE IF identifier = ClaimInitiatingIdentifier
  THEN LET r == ClaimBuild(seg, toks, p)
       IN BuildAttributeResponse(Some("claim"), r.value, r.leftover,
            IF r.leftover = None /\ Exhausted(toks, r.pos) THEN None ELSE Some(r.pos))
  ELSE BuildAttributeResponse(None, None, None, Some(p))

\* Dispatch, but the segment a loop hands back is also left in the cursor
DispatchKeepsLeftoverInCursor(seg, toks, p) ==
  LET identifier == find_identifier(seg) IN
  IF identifier = InterchangeIdentification
  THEN BuildAttributeResponse(Some("interchange"), InterchangeSegment(seg), None, Some(p))
  ELSE IF identifier = FinancialInformationIdentification
  THEN BuildAttributeResponse(Some("financial information"),
                              FinancialInformationSegment(seg), None, Some(p))
  ELSE IF identifier = OrganizationInitiatingIdentifier
  THEN LET r == OrganizationBuild(seg, toks, p)
       IN BuildAttributeResponse(Some("organization"), r.value, r.leftover,
            IF r.leftover = None THEN Some(r.pos) ELSE Some(r.pos - 1))
  ELSE IF identifier = ClaimInitiatingIdentifier
  THEN LET r == ClaimBuild(seg, toks, p)
       IN BuildAttributeResponse(Some("claim"), r.value, r.leftover,
            IF r.leftover = None THEN Some(r.pos) ELSE Some(r.pos - 1))
  ELSE BuildAttributeResponse(None, None, None, Some(p))

\* build_attribute with the segment in hand; segs is the cursor, Some(p)
Dispatch(seg, toks, p) ==
  LET identifier == find_identifier(seg) IN
  IF identifier = InterchangeIdentification
  THEN BuildAttributeResponse(Some("interchange"), InterchangeSegment(seg), None, Some(p))
  ELSE IF identifier = FinancialInformationIdentification
  THEN BuildAttributeResponse(Some("financial information"),
                              FinancialInformationSegment(seg), None, Some(p))
  ELSE IF identifier = OrganizationInitiatingIdentifier
  THEN LET r == OrganizationBuild(seg, toks, p)
       IN BuildAttributeResponse(Some("organization"), r.value, r.leftover, Some(r.pos))
  ELSE IF identifier = ClaimInitiatingIdentifier
  THEN LET r == ClaimBuild(seg, toks, p)
       IN BuildAttributeResponse(Some("claim"), r.value, r.leftover, Some(r.pos))
  ELSE BuildAttributeResponse(None, None, None, Some(p))

\* build_attribute, but it pulls from the cursor whether or not a segment is
\* pending
build_attribute_always_pulls(seg, segs, toks) ==
  IF Exhausted(toks, Get(segs))
  THEN BuildAttributeResponse(None, None, None, None)
  ELSE Dispatch(toks[Get(segs)], toks, Get(segs) + 1)

build_attribute(seg, segs, toks) ==
  IF seg = None
  THEN IF Exhausted(toks, Get(segs))
       THEN BuildAttributeResponse(None, None, None, None)
       ELSE Dispatch(toks[Get(segs)], toks, Get(segs) + 1)
  ELSE Dispatch(Get(seg), toks, Get(segs))

\* build, lines 132-144: read the file (any of Documents), split and trim it,
\* start the cursor
Tokenize ==
  /\ pc = "start"
  /\ file' \in Documents
  /\ tokens' = tokenize(file')
  /\ cursor' = 1
  /\ segments' = Some(1)
  /\ segment' = None
  /\ interchange' = None
  /\ financial_information' = None
  /\ claims' = <<>>
  /\ organizations' = <<>>
  /\ pc' = "build"
  /\ UNCHANGED <<data, ci, si, error, result, found, earlier>>

\* BuildStep, but the payer is checked when the TransactionSet is constructed
BuildStepChecksPayer ==
  /\ pc = "build"
  /\ \E response \in {build_attribute(segment, segments, tokens)} :
     /\ segment' = response.segment
     /\ segments' = response.segments
     /\ cursor' = IF response.segments = None THEN cursor ELSE Get(response.segments)
     /\ IF response.segments = None
        THEN /\ pc' = "built"
             /\ error' = IF Len(SelectSeq(organizations,
                                          LAMBDA o : o.organization.type = "payer")) = 1
                         THEN error ELSE "AssertionError"
             /\ UNCHANGED <<interchange, financial_information, organizations, claims>>
        ELSE /\ pc' = "build"
             /\ interchange' = IF response.key = Some("interchange")
                               THEN Some(response.value) ELSE interchange
             /\ financial_information' = IF response.key = Some("financial information")
                                         THEN Some(response.value)
                                         ELSE financial_information
             /\ organizations' = IF response.key = Some("organization")
                                 THEN Append(organizations, response.value)
                                 ELSE organizations
             /\ claims' = IF response.key = Some("claim")
                          THEN Append(claims, response.value) ELSE claims
             /\ UNCHANGED error
  /\ UNCHANGED <<file, tokens, data, ci, si, result, found, earlier>>

\* BuildStep, but a response without a key ends the loop like the exhausted
\* cursor does
BuildStepStopsOnOther ==
  /\ pc = "build"
  /\ \E response \in {build_attribute(segment, segments, tokens)} :
     /\ segment' = response.segment
     /\ segments' = response.segments
     /\ cursor' = IF response.segments = None THEN cursor ELSE Get(response.segments)
     /\ IF response.segments = None \/ response.key = None
        THEN /\ pc' = "built"
             /\ UNCHANGED <<interchange, financial_information, organizations, claims>>
        ELSE /\ pc' = "build"
             /\ interchange' = IF response.key = Some("interchange")
                               THEN Some(response.value) ELSE interchange
             /\ financial_information' = IF response.key = Some("financial information")
                                         THEN Some(response.value)
                                         ELSE financial_information
             /\ organizations' = IF response.key = Some("organization")
                                 THEN Append(organizations, response.value)
                                 ELSE organizations
             /\ claims' = IF response.key = Some("claim")
                          THEN Append(claims, response.value) ELSE claims
  /\ UNCHANGED <<file, tokens, data, ci, si, error, result, found, earlier>>

\* BuildStep, but a new organization or claim goes to the front of its list
BuildStepPrepends ==
  /\ pc = "build"
  /\ \E response \in {build_attribute(segment, segments, tokens)} :
     /\ segment' = response.segment
     /\ segments' = response.segments
     /\ cursor' = IF response.segments = None THEN cursor ELSE Get(response.segments)
     /\ IF response.segments = None
        THEN /\ pc' = "built"
             /\ UNCHANGED <<interchange, financial_information, organizations, claims>>
        ELSE /\ pc' = "build"
             /\ interchange' = IF response.key = Some("interchange")
                               THEN Some(response.value) ELSE interchange
             /\ financial_information' = IF response.key = Some("financial information")
                                         THEN Some(response.value)
                                         ELSE financial_information
             /\ organizations' = IF response.key = Some("organization")
                                 THEN <<response.value>> \o organizations
                                 ELSE organizations
             /\ claims' = IF response.key = Some("claim")
                          THEN <<response.value>> \o claims ELSE claims
  /\ UNCHANGED <<file, tokens, data, ci, si, error, result, found, earlier>>

\* BuildStep, but a service segment that no loop took goes to the claim
\* recorded last
BuildStepAttachesService ==
  /\ pc = "build"
  /\ \E response \in {build_attribute(segment, segments, tokens)} :
     /\ segment' = response.segment
     /\ segments' = response.segments
     /\ cursor' = IF response.segments = None THEN cursor ELSE Get(response.segments)
     /\ IF response.segments = None
        THEN /\ pc' = "built"
             /\ UNCHANGED <<interchange, financial_information, organizations, claims>>
        ELSE /\ pc' = "build"
             /\ interchange' = IF response.key = Some("interchange")
                               THEN Some(response.value) ELSE interchange
             /\ financial_information' = IF response.key = Some("financial information")
                                         THEN Some(response.value)
                                         ELSE financial_information
             /\ organizations' = IF response.key = Some("organization")
                                 THEN Append(organizations, response.value)
                                 ELSE organizations
             /\ claims' =
                  LET hand == IF segment # None THEN Get(segment) ELSE tokens[cursor] IN
                  IF response.key = Some("claim")
                  THEN Append(claims, response.value)
                  ELSE IF /\ response.key = None
                          /\ claims # <<>>
                          /\ find_identifier(hand) = ServiceInitiatingIdentifier
                  THEN [claims EXCEPT ![Len(claims)].services =
                          Append(@, ServiceBuild(hand, <<>>, 1).value)]
                  ELSE claims
  /\ UNCHANGED <<file, tokens, data, ci, si, error, result, found, earlier>>

\* BuildStep, but an interchange or financial information already set is kept
BuildStepKeepsFirst ==
  /\ pc = "build"
  /\ \E response \in {build_attribute(segment, segments, tokens)} :
     /\ segment' = response.segment
     /\ segments' = response.segments
     /\ cursor' = IF response.segments = None THEN cursor ELSE Get(response.segments)
     /\ IF response.segments = None
        THEN /\ pc' = "built"
             /\ UNCHANGED <<interchange, financial_information, organizations, claims>>
        ELSE /\ pc' = "build"
             /\ interchange' = IF response.key = Some("interchange") /\ interchange = None
                               THEN Some(response.value) ELSE interchange
             /\ financial_information' = IF /\ response.key = Some("financial information")
                                            /\ financial_information = None
                                         THEN Some(response.value)
                                         ELSE financial_information
             /\ organizations' = IF response.key = Some("organization")
                                 THEN Append(organizations, response.value)
                                 ELSE organizations
             /\ claims' = IF response.key = Some("claim")
                          THEN Append(claims, response.value) ELSE claims
  /\ UNCHANGED <<file, tokens, data, ci, si, error, result, found, earlier>>

\* build, lines 146-167: one turn of the dispatch loop; on the break the
\* TransactionSet is constructed and returned
BuildStep ==
  /\ pc = "build"
  /\ \E response \in {build_attribute(segment, segments, tokens)} :
     /\ segment' = response.segment
     /\ segments' = response.segments
     /\ cursor' = IF response.segments = None THEN cursor ELSE Get(response.segments)
     /\ IF response.segments = None
        THEN /\ pc' = "built"
             /\ UNCHANGED <<interchange, financial_information, organizations, claims>>
        ELSE /\ pc' = "build"
             /\ interchange' = IF response.key = Some("interchange")
                               THEN Some(response.value) ELSE interchange
             /\ financial_information' = IF response.key = Some("financial information")
                                         THEN Some(response.value)
                                         ELSE financial_information
             /\ organizations' = IF response.key = Some("organization")
                                 THEN Append(organizations, response.value)
                                 ELSE organizations
             /\ claims' = IF response.key = Some("claim")
                          THEN Append(claims, response.value) ELSE claims
  /\ UNCHANGED <<file, tokens, data, ci, si, error, result, found, earlier>>

\* ------------------------------------------------------------ payer lookup
\* the outcome of a call: the exception raised ("none" if none) and the value
Returned(v) == [raised |-> "none", value |-> v]
Raised(e) == [raised |-> e, value |-> None]

IsPayer(o) == o.organization.type = "payer"

\* payer, but without the assertion: the first payer found is returned
payer_unchecked(orgs) ==
  LET payers == SelectSeq(orgs, IsPayer)
  IN IF Len(payers) >= 1 THEN Returned(payers[1]) ELSE Raised("IndexError")

\* TransactionSet.payer
payer(orgs) ==
  LET payers == SelectSeq(orgs, IsPayer)
  IN IF Len(payers) = 1 THEN Returned(payers[1]) ELSE Raised("AssertionError")

\* ---------------------------------------------------------------- flatten
RECURSIVE Join(_, _)
Join(strs, sep) ==
  IF Len(strs) = 0 THEN <<>>
  ELSE IF Len(strs) = 1 THEN <<strs[1]>>
  ELSE <<strs[1], sep>> \o Join(Tail(strs), sep)

\* lines 100-104 and 107-111: the service's own date, else the claim's
start_date(claim, service) ==
  IF service.service_period_start # None
  THEN Some(Get(service.service_period_start).date)
  ELSE IF claim.claim_statement_period_start # None
  THEN Some(Get(claim.claim_statement_period_start).date)
  ELSE None

\* end_date, but decided by the presence of the service's start date
end_date_follows_start(claim, service) ==
  IF service.service_period_start # None
  THEN IF service.service_period_end # None
       THEN Some(Get(service.service_period_end).date) ELSE None
  ELSE IF claim.claim_statement_period_end # None
  THEN Some(Get(claim.claim_statement_period_end).date)
  ELSE None

end_date(claim, service) ==
  IF service.service_period_end # None
  THEN Some(Get(service.service_period_end).date)
  ELSE IF claim.claim_statement_period_end # None
  THEN Some(Get(claim.claim_statement_period_end).date)
  ELSE None

\* TransactionSet.serialize_service; fi and the optional members are None or
\* Some(object), and reading an attribute of None raises AttributeError
serialize_service(fi, payerOrg, claim, service) ==
  IF fi = None THEN Raised("AttributeError")
  ELSE Returned(
    [claim_index |-> claim.claim.index,
     patient |-> claim.patient.name,
     code |-> service.service.service_code,
     units |-> service.service.units,
     transaction_date |-> Get(fi).transaction_date,
     charge_amount |-> service.service.charge_amount,
     payer |-> payerOrg.organization.name,
     start_date |-> start_date(claim, service),
     end_date |-> end_date(claim, service),
     remark |-> IF service.remark # None
                THEN Some(<<Get(service.remark).qualifier, ": ", Get(service.remark).code>>)
                ELSE None,
     reference |-> IF service.references # <<>>
                   THEN Some(Join(service.references, ", ")) ELSE None,
     rendering_provider |-> IF claim.rendering_provider # None
                            THEN Some(Get(claim.rendering_provider).name) ELSE None])

\* add_line_item, but with group and reason interchanged
add_line_item_swapped(service, amount, type, group, reason) ==
  [amount |-> amount, type |-> type, group |-> reason, reason |-> group] @@ service

\* TransactionSet.add_line_item: a copy of the record with the four columns set
add_line_item(service, amount, type, group, reason) ==
  [amount |-> amount, type |-> type, group |-> group, reason |-> reason] @@ service

AdjustmentItem(serialized, adjustment) ==
  add_line_item(serialized, adjustment.amount, "adjustment",
                Some(adjustment.group_code), Some(adjustment.reason_code))

\* ServiceRows, but add_line_item writes into the record it is given instead
\* of a copy: every row of the service is that one record, as written last
ServiceRowsAliased(fi, orgs, claim, service) ==
  LET p == payer(orgs) IN
  IF p.raised # "none" THEN p
  ELSE LET s == serialize_service(fi, p.value, claim, service) IN
       IF s.raised # "none" THEN s
       ELSE LET items ==
                  <<add_line_item(s.value, service.service.paid_amount, "payment",
                                  None, None)>>
                  \o [k \in 1..Len(service.adjustments) |->
                        AdjustmentItem(s.value, service.adjustments[k])]
            IN Returned([k \in 1..Len(items) |-> items[Len(items)]])

\* to_dataframe, lines 45-63: the body of the loops for one service
ServiceRows(fi, orgs, claim, service) ==
  LET p == payer(orgs) IN
  IF p.raised # "none" THEN p
  ELSE LET s == serialize_service(fi, p.value, claim, service) IN
       IF s.raised # "none" THEN s
       ELSE Returned(
              <<add_line_item(s.value, service.service.paid_amount, "payment", None, None)>>
              \o [k \in 1..Len(service.adjustments) |->
                    AdjustmentItem(s.value, service.adjustments[k])])

\* the place the two for loops stand at: the first service at or after
\* service s of claim c, or claim Len(cs) + 1 when there is none
RECURSIVE Seek(_, _, _)
Seek(cs, c, s) ==
  IF c > Len(cs) THEN <<c, 1>>
  ELSE IF s > Len(cs[c].services) THEN Seek(cs, c + 1, 1)
  ELSE <<c, s>>

\* ToDataframeCall, but the list of rows outlives the call
ToDataframeCallKeepsData ==
  /\ \/ pc = "built"
     \/ pc = "returned" /\ Len(earlier) + 1 < MaxCalls
  /\ data' = data
  /\ earlier' = IF pc = "returned" THEN Append(earlier, Get(result)) ELSE earlier
  /\ ci' = Seek(claims, 1, 1)[1]
  /\ si' = Seek(claims, 1, 1)[2]
  /\ pc' = "flatten"
  /\ UNCHANGED <<file, tokens, cursor, segments, segment, interchange,
                 financial_information, claims, organizations, error, result, found>>

\* to_dataframe is called, line 41: on the TransactionSet just built, or once
\* more after it returned (the frame it returned then is kept in earlier)
ToDataframeCall ==
  /\ \/ pc = "built"
     \/ pc = "returned" /\ Len(earlier) + 1 < MaxCalls
  /\ data' = <<>>
  /\ earlier' = IF pc = "returned" THEN Append(earlier, Get(result)) ELSE earlier
  /\ ci' = Seek(claims, 1, 1)[1]
  /\ si' = Seek(claims, 1, 1)[2]
  /\ pc' = "flatten"
  /\ UNCHANGED <<file, tokens, cursor, segments, segment, interchange,
                 financial_information, claims, organizations, error, result, found>>

ToDataframeService ==
  /\ pc = "flatten"
  /\ ci <= Len(claims)
  /\ LET r == ServiceRows(financial_information, organizations,
                          claims[ci], claims[ci].services[si]) IN
     IF r.raised # "none"
     THEN /\ error' = r.raised
          /\ pc' = "raised"
          /\ UNCHANGED <<data, ci, si>>
     ELSE /\ data' = data \o r.value
          /\ ci' = Seek(claims, ci, si + 1)[1]
          /\ si' = Seek(claims, ci, si + 1)[2]
          /\ UNCHANGED <<error, pc>>
  /\ UNCHANGED <<file, tokens, cursor, segments, segment, interchange,
                 financial_information, claims, organizations, result, found, earlier>>

ToDataframeReturn ==
  /\ pc = "flatten"
  /\ ci > Len(claims)
  /\ result' = Some(data)
  /\ pc' = "returned"
  /\ UNCHANGED <<file, tokens, cursor, segments, segment, interchange,
                 financial_information, claims, organizations, data, ci, si,
                 error, found, earlier>>

PayerLookup ==
  /\ pc = "built"
  /\ LET r == payer(organizations) IN
     IF r.raised # "none"
     THEN /\ error' = r.raised
          /\ pc' = "payer raised"
          /\ UNCHANGED found
     ELSE /\ found' = Some(r.value)
          /\ pc' = "payer returned"
          /\ UNCHANGED error
  /\ UNCHANGED <<file, tokens, cursor, segments, segment, interchange,
                 financial_information, claims, organizations, data, ci, si, result,
                 earlier>>

\* ------------------------------------------------------- the specifications
\* Spec: a document is read, built, and the TransactionSet is then asked for
\* its payer or flattened
Init ==
  /\ file = <<>>
  /\ tokens = <<>>
  /\ cursor = 0
  /\ segments = None
  /\ segment = None
  /\ interchange = None
  /\ financial_information = None
  /\ claims = <<>>
  /\ organizations = <<>>
  /\ pc = "start"
  /\ data = <<>>
  /\ ci = 0
  /\ si = 0
  /\ error = "none"
  /\ result = None
  /\ found = None
  /\ earlier = <<>>

Next ==
  \/ Tokenize
  \/ BuildStep
  \/ PayerLookup
  \/ ToDataframeCall
  \/ ToDataframeService
  \/ ToDataframeReturn

Spec == Init /\ [][Next]_vars

\* FlatSpec: a TransactionSet is constructed directly (__init__, lines 18-28)
\* and then asked for its payer or flattened.
Organization(type, name) == [organization |-> [type |-> type, name |-> name]]

OrganizationLists ==
  SeqsUpTo({Organization("payer", "ACME"), Organization("payer", "BETA"),
            Organization("payee", "CLINIC")}, MaxOrgs)

FinancialInformations == {None, Some([transaction_date |-> "D1"])}

\* the shape of a claim: the number of adjustments of each of its services
Rows(shape) == Len(shape) + Len(Concat([i \in 1..Len(shape) |-> [k \in 1..shape[i] |-> k]]))

RECURSIVE ClaimShapes(_)
ClaimShapes(n) ==
  {<<>>} \cup
  UNION {{<<k>> \o t : t \in ClaimShapes(n - 1 - k)} : k \in 0..(n - 1)}

RECURSIVE ClaimListShapes(_, _)
ClaimListShapes(m, n) ==
  {<<>>} \cup
  IF m = 0 THEN {}
  ELSE UNION {{<<sh>> \o rest : rest \in ClaimListShapes(m - 1, n - Rows(sh))} :
              sh \in ClaimShapes(n)}

\* claims, services and adjustments told apart by their position
ShapedService(c, s, k) ==
  [service |-> [service_code |-> "A", units |-> s, charge_amount |-> 100,
                paid_amount |-> 50 * c + s],
   service_period_start |-> None, service_period_end |-> None,
   remark |-> None, references |-> <<>>,
   adjustments |-> [j \in 1..k |->
                      [group_code |-> "CO", reason_code |-> "45", amount |-> 10 * j]]]

ShapedClaim(c, shape) ==
  [claim |-> [index |-> c], patient |-> [name |-> "DOE"],
   claim_statement_period_start |-> None, claim_statement_period_end |-> None,
   rendering_provider |-> None,
   services |-> [s \in 1..Len(shape) |-> ShapedService(c, s, shape[s])]]

ShapedClaimLists ==
  {[c \in 1..Len(shapes) |-> ShapedClaim(c, shapes[c])] :
     shapes \in ClaimListShapes(MaxClaims, MaxRows)}

\* one claim with one service, with every combination of the optional members
Optional(v) == {None, Some(v)}

DetailedClaimLists ==
  {<<[claim |-> [index |-> 1], patient |-> [name |-> "DOE"],
      claim_statement_period_start |-> cs, claim_statement_period_end |-> ce,
      rendering_provider |-> rp,
      services |-> <<[service |-> [service_code |-> "A", units |-> 1,
                                   charge_amount |-> 100, paid_amount |-> 50],
                      service_period_start |-> ss, service_period_end |-> se,
                      remark |-> rm, references |-> refs,
                      adjustments |-> <<[group_code |-> "CO", reason_code |-> "45",
                                         amount |-> 10]>>]>>]>> :
     cs \in Optional([date |-> "CS"]), ce \in Optional([date |-> "CE"]),
     rp \in Optional([name |-> "WHO"]),
     ss \in Optional([date |-> "SS"]), se \in Optional([date |-> "SE"]),
     rm \in Optional([qualifier |-> "HE", code |-> "N130"]),
     refs \in {<<>>, <<"R1">>, <<"R1", "R2">>}}

FlatInit ==
  /\ file = <<>>
  /\ tokens = <<>>
  /\ cursor = 0
  /\ segments = None
  /\ segment = None
  /\ interchange = None
  /\ financial_information \in FinancialInformations
  /\ \/ /\ organizations \in OrganizationLists
        /\ claims \in ShapedClaimLists
     \/ /\ organizations = <<Organization("payer", "ACME")>>
        /\ claims \in DetailedClaimLists
  /\ pc = "built"
  /\ data = <<>>
  /\ ci = 0
  /\ si = 0
  /\ error = "none"
  /\ result = None
  /\ found = None
  /\ earlier = <<>>

FlatNext ==
  \/ PayerLookup
  \/ ToDataframeCall
  \/ ToDataframeService
  \/ ToDataframeReturn

FlatSpec == FlatInit /\ [][FlatNext]_vars

\* ================================================================= claims
NumPayers(orgs) ==
  Cardinality({i \in 1..Len(orgs) : orgs[i].organization.type = "payer"})

Identified(toks, identifier) ==
  {i \in 1..Len(toks) : find_identifier(toks[i]) = identifier}

Parsing == pc \in {"start", "build"}

\* the segments the dispatch loop has still to dispatch: the unread tokens of
\* the cursor and the pending segment
Remaining == (Len(tokens) + 1 - cursor) + (IF segment = None THEN 0 ELSE 1)

\* C1: build terminates on every document: every turn of the dispatch loop
\* leaves fewer segments to dispatch, the loop stops exactly when there is no
\* pending segment and the cursor is exhausted, and it stays stopped.
C1_BuildTerminates ==
  /\ [][/\ pc = "build" /\ Remaining > 0 => pc' = "build" /\ Remaining' < Remaining
        /\ pc = "build" /\ Remaining = 0 => pc' = "built"
        /\ ~Parsing => ~Parsing']_vars
  /\ [](~Parsing => segment = None /\ cursor > Len(tokens))

\* a build that went through a claim loop and its leftover and has stopped
C1_Witness ==
  /\ pc = "built"
  /\ Len(tokens) >= 3
  /\ claims # <<>>
  /\ Identified(tokens, <<"ZZ">>) # {}

\* C2: after build, claims has one entry per Claim-initiating segment of the
\* token sequence.
C2_ClaimCount ==
  ~Parsing => Len(claims) = Cardinality(Identified(tokens, ClaimInitiatingIdentifier))

\* claims met after an organization loop, as the leftover of a claim loop with
\* a service, and as the last segment of the document
C2_Witness ==
  /\ pc = "built"
  /\ Len(tokens) = 4
  /\ find_identifier(tokens[1]) = OrganizationInitiatingIdentifier
  /\ find_identifier(tokens[2]) = ClaimInitiatingIdentifier
  /\ find_identifier(tokens[3]) = ServiceInitiatingIdentifier
  /\ find_identifier(tokens[4]) = ClaimInitiatingIdentifier
  /\ Len(claims) = 2

\* C5: no error is raised while the document is parsed, whatever the number of
\* payers; an error is only ever raised by the payer lookup or by to_dataframe.
C5_PayerCheckIsLazy ==
  /\ (Parsing \/ pc = "built") => error = "none"
  /\ error # "none" => pc \in {"payer raised", "raised"}

\* a document with two payers has been built
C5_Witness ==
  /\ pc = "built"
  /\ NumPayers(organizations) = 2
  /\ error = "none"

\* C3: the payer lookup raises the assertion error when the number of payers
\* is not one, and otherwise returns the one organization of type payer.
C3_PayerLookup ==
  /\ pc = "payer raised" =>
       /\ NumPayers(organizations) # 1
       /\ error = "AssertionError"
       /\ found = None
  /\ pc = "payer returned" =>
       /\ NumPayers(organizations) = 1
       /\ error = "none"
       /\ found # None
       /\ \E i \in 1..Len(organizations) :
            /\ organizations[i] = Get(found)
            /\ organizations[i].organization.type = "payer"

\* the lookup has failed on two payers of different names
C3_Witness ==
  /\ pc = "payer raised"
  /\ Len(organizations) = 2
  /\ NumPayers(organizations) = 2
  /\ organizations[1] # organizations[2]

\* C4: when the number of payers is not one, to_dataframe never returns: it
\* raises the assertion error, also when there is no claim or no service.
C4_FlattenNeedsPayer ==
  NumPayers(organizations) # 1 =>
    /\ pc # "returned"
    /\ pc = "raised" => error = "AssertionError"

\* the services in the order of the loops, and the row each stands behind:
\* <<c, s, 0>> the payment of service s of claim c, <<c, s, k>> its adjustment k
Owners(cs) ==
  Concat([c \in 1..Len(cs) |->
    Concat([s \in 1..Len(cs[c].services) |->
      [j \in 1..(1 + Len(cs[c].services[s].adjustments)) |-> <<c, s, j - 1>>]])])

Finished == pc \in {"returned", "raised"}

RowOf(row, owner) ==
  LET claim == claims[owner[1]]
      service == claim.services[owner[2]]
  IN /\ row.claim_index = claim.claim.index
     /\ row.code = service.service.service_code
     /\ row.units = service.service.units
     /\ row.charge_amount = service.service.charge_amount
     /\ IF owner[3] = 0
        THEN row.type = "payment" /\ row.amount = service.service.paid_amount
        ELSE row.type = "adjustment" /\
             row.amount = service.adjustments[owner[3]].amount

\* C6: with exactly one payer, to_dataframe returns one row per service and
\* per adjustment, by claim, then service, the payment before the adjustments.
C6_RowOrder ==
  (Finished /\ NumPayers(organizations) = 1) =>
    /\ pc = "returned"
    /\ Len(Get(result)) = Len(Owners(claims))
    /\ \A i \in 1..Len(Get(result)) : RowOf(Get(result)[i], Owners(claims)[i])

BaseFields == {"claim_index", "patient", "code", "units", "transaction_date",
               "charge_amount", "payer", "start_date", "end_date", "remark",
               "reference", "rendering_provider"}

Base(row) == [f \in BaseFields |-> row[f]]

\* C7: the payment row of a service has its paid amount, type payment and no
\* group or reason; an adjustment row has the adjustment's amount, group and
\* reason and type adjustment; the rows of one service have the same base
\* record; and a returned frame has these rows for every service.
C7_RowContents ==
  /\ Len(data) <= Len(Owners(claims))
  /\ \A i \in 1..Len(data) :
       LET owner == Owners(claims)[i]
           service == claims[owner[1]].services[owner[2]]
           row == data[i]
       IN /\ IF owner[3] = 0
             THEN /\ row.amount = service.service.paid_amount
                  /\ row.type = "payment"
                  /\ row.group = None
                  /\ row.reason = None
             ELSE LET adjustment == service.adjustments[owner[3]]
                  IN /\ row.amount = adjustment.amount
                     /\ row.type = "adjustment"
                     /\ row.group = Some(adjustment.group_code)
                     /\ row.reason = Some(adjustment.reason_code)
          /\ Base(row) = Base(data[i - owner[3]])
          /\ DOMAIN row = BaseFields \cup {"amount", "type", "group", "reason"}
  /\ pc = "returned" => Get(result) = data /\ Len(data) = Len(Owners(claims))

\* one service paid 50 with the adjustment (10, CO, 45) gave exactly two rows
C7_Witness ==
  /\ pc = "returned"
  /\ Len(Get(result)) = 2
  /\ Get(result)[1].amount = 50 /\ Get(result)[1].type = "payment"
  /\ Get(result)[1].group = None /\ Get(result)[1].reason = None
  /\ Get(result)[2].amount = 10 /\ Get(result)[2].type = "adjustment"
  /\ Get(result)[2].group = Some("CO") /\ Get(result)[2].reason = Some("45")

RECURSIVE Sum(_)
Sum(ns) == IF ns = <<>> THEN 0 ELSE Head(ns) + Sum(Tail(ns))

PaidAmounts(cs) ==
  Concat([c \in 1..Len(cs) |->
    [s \in 1..Len(cs[c].services) |-> cs[c].services[s].service.paid_amount]])

PaymentAmounts(rows) ==
  [i \in 1..Len(rows) |-> IF rows[i].type = "payment" THEN rows[i].amount ELSE 0]

\* C8: with exactly one payer, the amounts of the payment rows of the
\* flattened TransactionSet add up to the paid amounts of all its services.
C8_PaymentSum ==
  (Finished /\ NumPayers(organizations) = 1) =>
    /\ result # None
    /\ Sum(PaymentAmounts(Get(result))) = Sum(PaidAmounts(claims))

\* the date of a row: the service's own if it has one, else the claim's if it
\* has one, else none
Inherited(own, enclosing) ==
  CASE own # None -> Some(Get(own).date)
    [] own = None /\ enclosing # None -> Some(Get(enclosing).date)
    [] own = None /\ enclosing = None -> None

\* C9: in every row, start_date and end_date are each the service's own date
\* if present, else the claim's, else absent, the one independently of the other.
C9_DatesInherited ==
  \A i \in 1..Len(data) :
    LET owner == Owners(claims)[i]
        claim == claims[owner[1]]
        service == claim.services[owner[2]]
    IN /\ data[i].start_date =
            Inherited(service.service_period_start, claim.claim_statement_period_start)
       /\ data[i].end_date =
            Inherited(service.service_period_end, claim.claim_statement_period_end)

\* a service with a start date of its own and no end date, in a claim that has
\* both: the row has the service's start and the claim's end
C9_Witness ==
  /\ pc = "returned"
  /\ Len(claims) = 1
  /\ Len(claims[1].services) = 1
  /\ claims[1].services[1].service_period_start # None
  /\ claims[1].services[1].service_period_end = None
  /\ claims[1].claim_statement_period_start # None
  /\ claims[1].claim_statement_period_end # None
  /\ Get(result)[1].start_date = Some("SS")
  /\ Get(result)[1].end_date = Some("CE")

\* C10: a document without a FinancialInformation (Interchange) segment is
\* built with that field absent, and flattening the TransactionSet, when it
\* has a unique payer and a service, does not fail and returns all its rows.
C10_AbsencePropagates ==
  /\ ~Parsing /\ Identified(tokens, FinancialInformationIdentification) = {}
       => financial_information = None
  /\ ~Parsing /\ Identified(tokens, InterchangeIdentification) = {}
       => interchange = None
  /\ (/\ Finished
      /\ financial_information = None \/ interchange = None
      /\ NumPayers(organizations) = 1
      /\ Owners(claims) # <<>>) =>
       /\ pc = "returned"
       /\ Len(Get(result)) = Len(Owners(claims))

\* C11: flattening is a pure read: every call of to_dataframe on one
\* TransactionSet returns the same rows (a later call does not fail either),
\* and no step of a call changes the interchange, the financial information,
\* the organizations or the claims with their services and adjustments.
C11_FlattenIsPureRead ==
  /\ [](/\ pc = "returned" => \A i \in 1..Len(earlier) : earlier[i] = Get(result)
        /\ earlier # <<>> => pc # "raised")
  /\ [][~Parsing =>
          UNCHANGED <<interchange, financial_information, organizations, claims>>]_vars

\* a second call has returned, three rows or more
C11_Witness ==
  /\ pc = "returned"
  /\ Len(earlier) = 1
  /\ Len(Get(result)) >= 3
  /\ Get(result)[2].type = "adjustment"

\* the identifier of token i of the document being built
Ident(i) == find_identifier(tokens[i])

\* C12: when the cursor empties inside an Organization or Claim loop, the
\* build ends without error and the organization or claim of that loop is the
\* last one recorded, with the services and adjustments the loop had read.
C12_LastLoopRecorded ==
  LET n == Len(tokens)
      lastOrganization == organizations[Len(organizations)]
      lastClaim == claims[Len(claims)]
  IN /\ pc = "built" => error = "none"
     /\ (~Parsing /\ Ident(n) = OrganizationInitiatingIdentifier) =>
          /\ organizations # <<>>
          /\ lastOrganization.organization = OrganizationSegment(tokens[n])
     /\ (~Parsing /\ Ident(n) = ClaimInitiatingIdentifier) =>
          /\ claims # <<>>
          /\ lastClaim.claim = ClaimSegment(tokens[n])
          /\ lastClaim.services = <<>>
     /\ (/\ ~Parsing
         /\ n >= 2
         /\ Ident(n - 1) = ClaimInitiatingIdentifier
         /\ Ident(n) = ServiceInitiatingIdentifier) =>
          /\ claims # <<>>
          /\ lastClaim.claim = ClaimSegment(tokens[n - 1])
          /\ Len(lastClaim.services) = 1
          /\ lastClaim.services[1].service = ServiceSegment(tokens[n])
     /\ (/\ ~Parsing
         /\ n >= 3
         /\ Ident(n - 2) = ClaimInitiatingIdentifier
         /\ Ident(n - 1) = ServiceInitiatingIdentifier
         /\ Ident(n) = AdjustmentIdentification) =>
          /\ claims # <<>>
          /\ Len(lastClaim.services) = 1
          /\ lastClaim.services[1].adjustments = <<AdjustmentSegment(tokens[n])>>

\* a document that ends inside the adjustment of the service of its one claim
\* has been built
C12_Witness ==
  /\ pc = "built"
  /\ Len(tokens) = 3
  /\ Ident(1) = ClaimInitiatingIdentifier
  /\ Ident(2) = ServiceInitiatingIdentifier
  /\ Ident(3) = AdjustmentIdentification
  /\ Len(claims) = 1
  /\ Len(claims[1].services[1].adjustments) = 1
  /\ error = "none"

\* the index of the token the dispatcher classifies next: the pending one if
\* there is one, else the one the cursor yields next
InHand == IF segment # None THEN cursor - 1 ELSE cursor

\* the tokens with the identifier that lie before token h
Before(identifier, h) == {i \in Identified(tokens, identifier) : i < h}

\* C13: a leftover handed back by a loop is the pending segment: it is the
\* token just before the cursor, it has not been dispatched yet, and every
\* token before it has been dispatched once: nothing is skipped or taken
\* twice between the end of a loop and the next dispatch.
C13_LeftoverHandoff ==
  pc = "build" =>
    /\ segment # None => cursor >= 2 /\ Get(segment) = tokens[cursor - 1]
    /\ InHand <= Len(tokens) + 1
    /\ Len(organizations) = Cardinality(Before(OrganizationInitiatingIdentifier, InHand))
    /\ Len(claims) = Cardinality(Before(ClaimInitiatingIdentifier, InHand))
    /\ interchange # None <=> Before(InterchangeIdentification, InHand) # {}
    /\ financial_information # None <=>
         Before(FinancialInformationIdentification, InHand) # {}

\* the claim that a claim loop with a service handed back has been dispatched
\* in its turn, and the organization its own loop handed back is pending
C13_Witness ==
  /\ pc = "build"
  /\ Len(tokens) = 4
  /\ Ident(1) = ClaimInitiatingIdentifier
  /\ Ident(2) = ServiceInitiatingIdentifier
  /\ Ident(3) = ClaimInitiatingIdentifier
  /\ Ident(4) = OrganizationInitiatingIdentifier
  /\ Len(claims) = 2
  /\ segment = Some(tokens[4])
  /\ organizations = <<>>

\* the identifiers the top-level dispatcher has a branch for
Dispatched == {InterchangeIdentification, FinancialInformationIdentification,
               OrganizationInitiatingIdentifier, ClaimInitiatingIdentifier}

\* C14: a turn of the loop whose segment in hand has none of the four
\* dispatched identifiers changes no field of the result, leaves no segment
\* pending, raises nothing, and the loop goes on with the next token of the
\* cursor (or ends, on the following turn, when there is none).
C14_OtherIsDropped ==
  [][(/\ pc = "build"
      /\ InHand <= Len(tokens)
      /\ Ident(InHand) \notin Dispatched) =>
       /\ UNCHANGED <<interchange, financial_information, claims, organizations>>
       /\ segment' = None
       /\ error' = "none"
       /\ pc' = "build"
       /\ cursor' = InHand + 1
       /\ InHand' = InHand + 1]_vars

\* an unrecognized segment was dropped after a claim, and the claim after it
\* has been recorded
C14_Witness ==
  /\ pc = "build"
  /\ Len(tokens) = 4
  /\ Ident(1) = ClaimInitiatingIdentifier
  /\ Ident(2) = <<"ZZ">>
  /\ Ident(3) = ClaimInitiatingIdentifier
  /\ cursor = 5
  /\ Len(claims) = 2
  /\ Len(organizations) = 0

\* The extent of a loop, read off the token sequence. The claim loop that
\* starts at token i owns a following token j when j starts a service, or is
\* an adjustment or a reference of a service already started.
Owned(i, j) ==
  \/ Ident(j) = ServiceInitiatingIdentifier
  \/ j > i + 1 /\ Ident(j) \in {AdjustmentIdentification, ReferenceIdentification}

\* the first token after token i that the claim loop starting at i does not
\* own, or Len(tokens) + 1 when it owns all the rest
ClaimEnd(i) ==
  CHOOSE j \in (i + 1)..(Len(tokens) + 1) :
    /\ j = Len(tokens) + 1 \/ ~Owned(i, j)
    /\ \A k \in (i + 1)..(j - 1) : Owned(i, k)

\* the end of the service that starts at token m of a claim loop ending at e
ServiceEnd(m, e) ==
  CHOOSE j \in (m + 1)..e :
    /\ j = e \/ Ident(j) = ServiceInitiatingIdentifier
    /\ \A k \in (m + 1)..(j - 1) : Ident(k) # ServiceInitiatingIdentifier

\* the tokens with the identifier that lie strictly between tokens m and e
Members(m, e, identifier) ==
  SelectSeq([j \in 1..(e - m - 1) |-> m + j], LAMBDA j : Ident(j) = identifier)

ExpectedService(m, e) ==
  LET end == ServiceEnd(m, e)
      adjustments == Members(m, end, AdjustmentIdentification)
      references == Members(m, end, ReferenceIdentification)
  IN [service |-> ServiceSegment(tokens[m]),
      service_period_start |-> None, service_period_end |-> None, remark |-> None,
      references |-> [k \in 1..Len(references) |-> ReferenceSegment(tokens[references[k]])],
      adjustments |-> [k \in 1..Len(adjustments) |-> AdjustmentSegment(tokens[adjustments[k]])]]

ExpectedClaim(i) ==
  LET end == ClaimEnd(i)
      services == Members(i, end, ServiceInitiatingIdentifier)
  IN [claim |-> ClaimSegment(tokens[i]), patient |-> PatientSegment(tokens[i]),
      claim_statement_period_start |-> None, claim_statement_period_end |-> None,
      rendering_provider |-> None,
      services |-> [k \in 1..Len(services) |-> ExpectedService(services[k], end)]]

\* the k-th token with the identifier
KthIndex(identifier, k) ==
  LET all == Identified(tokens, identifier)
  IN CHOOSE i \in all : Cardinality({j \in all : j < i}) = k - 1

\* the token that started the loop dispatched last
LastLoop ==
  LET loops == Before(OrganizationInitiatingIdentifier, InHand)
                 \cup Before(ClaimInitiatingIdentifier, InHand)
  IN CHOOSE i \in loops : \A j \in loops : j <= i

\* C15: a loop consumes its starting segment and the segments it owns and
\* hands back, unconsumed, the first segment it does not own: the pending
\* segment is the token at the end of the extent of the loop dispatched last
\* (through every nested loop it was met in), and every recorded claim holds
\* exactly the services, adjustments and references of its extent.
C15_LoopBoundary ==
  pc # "start" =>
    /\ segment # None =>
         /\ cursor >= 2 /\ Get(segment) = tokens[cursor - 1]
         /\ Before(OrganizationInitiatingIdentifier, InHand)
              \cup Before(ClaimInitiatingIdentifier, InHand) # {}
         /\ LET last == LastLoop
            IN IF Ident(last) = ClaimInitiatingIdentifier
               THEN InHand = ClaimEnd(last)
               ELSE InHand = last + 1
    /\ Len(claims) = Cardinality(Before(ClaimInitiatingIdentifier, InHand))
    /\ \A k \in 1..Len(claims) :
         LET i == KthIndex(ClaimInitiatingIdentifier, k)
         IN /\ claims[k] = ExpectedClaim(i)
            /\ ClaimEnd(i) <= InHand

\* a claim met inside the adjustment of a service of the claim before it has
\* come up to the dispatcher as the pending segment
C15_Witness ==
  /\ pc = "build"
  /\ Len(tokens) = 4
  /\ Ident(1) = ClaimInitiatingIdentifier
  /\ Ident(2) = ServiceInitiatingIdentifier
  /\ Ident(3) = AdjustmentIdentification
  /\ Ident(4) = ClaimInitiatingIdentifier
  /\ segment = Some(tokens[4])
  /\ Len(claims) = 1
  /\ Len(claims[1].services) = 1
  /\ Len(claims[1].services[1].adjustments) = 1

\* C16: no empty segment is ever pulled from the cursor and handed to the
\* classifier: the tokens of every document are non-empty, and so are the
\* segment the dispatcher pulls next and the segment pending.
C16_NoEmptySegment ==
  /\ \A i \in 1..Len(tokens) : tokens[i] # <<>>
  /\ (pc = "build" /\ segment # None) => Get(segment) # <<>>

\* list is list0 with at most one entry added at its end
Appended(list0, list) ==
  /\ Len(list) \in {Len(list0), Len(list0) + 1}
  /\ SubSeq(list, 1, Len(list0)) = list0

\* C17: at every point of the parse the claims are those of the
\* Claim-initiating tokens dispatched so far, in the order of the tokens, and
\* likewise the organizations; a turn of the loop adds at most one entry at
\* the end of a list and changes, moves or removes none, and nothing changes
\* the lists once the document is built.
C17_DocumentOrder ==
  /\ [](pc # "start" =>
         /\ Len(claims) = Cardinality(Before(ClaimInitiatingIdentifier, InHand))
         /\ \A k \in 1..Len(claims) :
              LET i == KthIndex(ClaimInitiatingIdentifier, k)
              IN /\ claims[k].claim = ClaimSegment(tokens[i])
                 /\ claims[k].patient = PatientSegment(tokens[i])
         /\ Len(organizations) =
              Cardinality(Before(OrganizationInitiatingIdentifier, InHand))
         /\ \A k \in 1..Len(organizations) :
              LET i == KthIndex(OrganizationInitiatingIdentifier, k)
              IN organizations[k].organization = OrganizationSegment(tokens[i]))
  /\ [][/\ pc = "build" => /\ Appended(claims, claims')
                           /\ Appended(organizations, organizations')
        /\ ~Parsing => UNCHANGED <<claims, organizations>>]_vars

\* the claims of ROE and of DOE, met in this order with a segment between
\* them, have been recorded in this order
C17_Witness ==
  /\ pc = "built"
  /\ Len(tokens) = 3
  /\ Ident(1) = ClaimInitiatingIdentifier
  /\ Ident(3) = ClaimInitiatingIdentifier
  /\ Len(claims) = 2
  /\ claims[1].patient.name = "ROE" /\ claims[1].claim.index = 10
  /\ claims[2].patient.name = "DOE" /\ claims[2].claim.index = 1

\* C18: add_line_item gives a new record each time and leaves the record it
\* is given as it was: every row still carries the base record as
\* serialize_service made it, the payment row of a service is still the
\* payment (its amount the paid amount, no group, no reason) after each of the
\* service's adjustment rows is there, and rows once emitted are not changed
\* by what is emitted after them.
C18_RowsDoNotAlias ==
  /\ [](\A i \in 1..Len(data) :
          LET owner == Owners(claims)[i]
              claim == claims[owner[1]]
              service == claim.services[owner[2]]
              datum == serialize_service(financial_information,
                                         payer(organizations).value, claim, service)
              payment == data[i - owner[3]]
          IN /\ Base(data[i]) = datum.value
             /\ DOMAIN datum.value = BaseFields
             /\ owner[3] > 0 =>
                  /\ payment # data[i]
                  /\ payment.type = "payment"
                  /\ payment.amount = service.service.paid_amount
                  /\ payment.group = None
                  /\ payment.reason = None)
  /\ [][(pc = "flatten" /\ pc' \in {"flatten", "returned"}) =>
          SubSeq(data', 1, Len(data)) = data]_vars

\* the rows of a service with two adjustments have been returned: the payment
\* row first, then the two adjustment rows
C18_Witness ==
  /\ pc = "returned"
  /\ Len(claims) = 1
  /\ Len(claims[1].services) = 1
  /\ Len(claims[1].services[1].adjustments) = 2
  /\ Len(Get(result)) = 3
  /\ Get(result)[1].type = "payment" /\ Get(result)[1].amount = 51
  /\ Get(result)[1].group = None
  /\ Get(result)[2].type = "adjustment" /\ Get(result)[2].amount = 10
  /\ Get(result)[3].type = "adjustment" /\ Get(result)[3].amount = 20
  /\ Get(result)[3].group = Some("CO")

\* the tokens within the extents of the claim loops dispatched so far
InsideClaims ==
  UNION {(i + 1)..(ClaimEnd(i) - 1) : i \in Before(ClaimInitiatingIdentifier, InHand)}

\* the Service-initiating and Adjustment tokens dispatched so far that no
\* claim loop took: they came to the top-level dispatcher
Stray ==
  (Before(ServiceInitiatingIdentifier, InHand)
     \cup Before(AdjustmentIdentification, InHand)) \ InsideClaims

ServicesOf(cs) == Concat([k \in 1..Len(cs) |-> cs[k].services])

\* C19: a Service-initiating or Adjustment segment that comes to the
\* top-level dispatcher makes no record and goes to no claim: the services of
\* the recorded claims are those met inside claim loops, their adjustments
\* those met inside these services, and there are as many claims and
\* organizations as initiating segments.
C19_StrayServiceIsDropped ==
  pc # "start" =>
    LET inside == InsideClaims
        services == ServicesOf(claims)
        stray == Stray
    IN /\ Len(services) =
            Cardinality(Before(ServiceInitiatingIdentifier, InHand) \cap inside)
       /\ Sum([k \in 1..Len(services) |-> Len(services[k].adjustments)]) =
            Cardinality(Before(AdjustmentIdentification, InHand) \cap inside)
       /\ Len(claims) = Cardinality(Before(ClaimInitiatingIdentifier, InHand))
       /\ Len(organizations) =
            Cardinality(Before(OrganizationInitiatingIdentifier, InHand))
       /\ \A k \in 1..Len(claims) :
            LET i == KthIndex(ClaimInitiatingIdentifier, k)
            IN (\E j \in stray : i < j) => claims[k] = ExpectedClaim(i)

\* a claim loop ended by an unrecognized segment, then a service and its
\* adjustment at top level: the claim is recorded without services
C19_Witness ==
  /\ pc = "built"
  /\ Len(tokens) = 4
  /\ Ident(1) = ClaimInitiatingIdentifier
  /\ Ident(2) = <<"ZZ">>
  /\ Ident(3) = ServiceInitiatingIdentifier
  /\ Ident(4) = AdjustmentIdentification
  /\ Stray = {3, 4}
  /\ Len(claims) = 1
  /\ claims[1].services = <<>>
  /\ organizations = <<>>

\* the last token with the identifier that lies before token h
LastBefore(identifier, h) ==
  LET before == Before(identifier, h)
  IN CHOOSE i \in before : \A j \in before : j <= i

\* C20: the interchange (the financial information) is at every point the one
\* built from the last Interchange (FinancialInformation) segment dispatched
\* so far, so after the build the one of the last such segment of the
\* document; several such segments raise no error.
C20_LastHeaderWins ==
  /\ pc # "start" =>
       /\ interchange =
            IF Before(InterchangeIdentification, InHand) = {} THEN None
            ELSE Some(InterchangeSegment(
                        tokens[LastBefore(InterchangeIdentification, InHand)]))
       /\ financial_information =
            IF Before(FinancialInformationIdentification, InHand) = {} THEN None
            ELSE Some(FinancialInformationSegment(
                        tokens[LastBefore(FinancialInformationIdentification, InHand)]))
  /\ (/\ pc \in {"build", "built"}
      /\ \/ Cardinality(Identified(tokens, InterchangeIdentification)) > 1
         \/ Cardinality(Identified(tokens, FinancialInformationIdentification)) > 1) =>
       error = "none"

\* two interchanges and two financial informations, of different values, were
\* met: the TransactionSet has the values of the later ones
C20_Witness ==
  /\ pc = "built"
  /\ Len(tokens) = 4
  /\ tokens[1] = <<"ISA", "*", "I1">>
  /\ tokens[2] = <<"BPR", "*", "D1">>
  /\ tokens[3] = <<"ISA", "*", "I2">>
  /\ tokens[4] = <<"BPR", "*", "D2">>
  /\ interchange = Some([control |-> "I2"])
  /\ financial_information = Some([transaction_date |-> "D2"])
  /\ error = "none"

====
